---- MODULE Spec2Model ----
(***************************************************************************)
(* Financial-statement extraction pipeline of app.py: year detection,      *)
(* alias matching, numeric token extraction and parsing, deduplication,    *)
(* gap filling, and the upload handler that runs them on a saved file.     *)
(*                                                                         *)
(* Text is modelled as TLA+ strings, read character by character.  A       *)
(* Python float is modelled as <<n, s>>, the decimal n / 10^s with no      *)
(* trailing zero in the fraction (1500.0 is <<1500, 0>>, 75.5 is           *)
(* <<755, 1>>), and None as the empty tuple.  The year "Unknown" is the    *)
(* number Unknown, so that years stay comparable.                          *)
(*                                                                         *)
(* detect_currency and the content of the files generate_output_file       *)
(* writes are left out: no property below reads them.  upload() is split   *)
(* at its calls, so that concurrent requests interleave between them.      *)
(***************************************************************************)
EXTENDS Integers, Sequences, FiniteSets, TLC

\* ------------------------------------------------------------------ text

Char(s, i) == IF i >= 1 /\ i <= Len(s) THEN SubSeq(s, i, i) ELSE ""

Digits == {"0", "1", "2", "3", "4", "5", "6", "7", "8", "9"}

UpperLetters == "ABCDEFGHIJKLMNOPQRSTUVWXYZ"

LowerLetters == "abcdefghijklmnopqrstuvwxyz"

Letters == {Char(UpperLetters, k) : k \in 1..26} \cup {Char(LowerLetters, k) : k \in 1..26}

IsDigit(c) == c \in Digits

\* \w of the re module, on the characters the model's texts use
IsWordChar(c) == c \in Digits \/ c \in Letters \/ c = "_"

\* the characters str.strip() removes
IsSpace(c) == c \in {" ", "\t", "\n", "\r", "\f"}

DigitVal(c) == CHOOSE d \in 0..9 : Char("0123456789", d + 1) = c

\* int() of a string of digits
RECURSIVE ToInt(_)
ToInt(s) ==
    IF Len(s) = 0 THEN 0
    ELSE 10 * ToInt(SubSeq(s, 1, Len(s) - 1)) + DigitVal(Char(s, Len(s)))

LowerChar(c) ==
    IF \E k \in 1..26 : Char(UpperLetters, k) = c
    THEN Char(LowerLetters, CHOOSE k \in 1..26 : Char(UpperLetters, k) = c)
    ELSE c

\* str.lower()
RECURSIVE lower(_)
lower(s) == IF Len(s) = 0 THEN "" ELSE LowerChar(Char(s, 1)) \o lower(SubSeq(s, 2, Len(s)))

\* str.strip()
RECURSIVE strip(_)
strip(s) ==
    IF Len(s) = 0 THEN ""
    ELSE IF IsSpace(Char(s, 1)) THEN strip(SubSeq(s, 2, Len(s)))
    ELSE IF IsSpace(Char(s, Len(s))) THEN strip(SubSeq(s, 1, Len(s) - 1))
    ELSE s

\* needle in hay
Contains(hay, needle) ==
    \E i \in 1..(Len(hay) - Len(needle) + 1) : SubSeq(hay, i, i + Len(needle) - 1) = needle

\* s.replace(",", "")
RECURSIVE RemoveCommas(_)
RemoveCommas(s) ==
    IF Len(s) = 0 THEN ""
    ELSE (IF Char(s, 1) = "," THEN "" ELSE Char(s, 1)) \o RemoveCommas(SubSeq(s, 2, Len(s)))

\* page_text.split("\n"): the pieces between newlines, empty ones included
RECURSIVE SplitFrom(_, _, _)
SplitFrom(s, i, cur) ==
    IF i > Len(s) THEN <<cur>>
    ELSE IF Char(s, i) = "\n" THEN <<cur>> \o SplitFrom(s, i + 1, "")
    ELSE SplitFrom(s, i + 1, cur \o Char(s, i))

SplitLines(s) == SplitFrom(s, 1, "")

\* sep.join(parts)
RECURSIVE Join(_, _)
Join(parts, sep) ==
    IF Len(parts) = 0 THEN ""
    ELSE IF Len(parts) = 1 THEN parts[1]
    ELSE parts[1] \o sep \o Join(Tail(parts), sep)

\* ------------------------------------------------------------- sequences

Range(seq) == {seq[i] : i \in 1..Len(seq)}

RECURSIVE Insert(_, _)
Insert(sortedSeq, x) ==
    IF Len(sortedSeq) = 0 THEN <<x>>
    ELSE IF x < sortedSeq[1] THEN <<x>> \o sortedSeq
    ELSE <<sortedSeq[1]>> \o Insert(Tail(sortedSeq), x)

\* sorted(seq)
RECURSIVE sorted(_)
sorted(seq) ==
    IF Len(seq) = 0 THEN <<>>
    ELSE Insert(sorted(SubSeq(seq, 1, Len(seq) - 1)), seq[Len(seq)])

Reverse(seq) == [i \in 1..Len(seq) |-> seq[Len(seq) + 1 - i]]

\* sorted(set(...))
RECURSIVE SortSet(_)
SortSet(S) ==
    IF S = {} THEN <<>>
    ELSE LET m == CHOOSE x \in S : \A y \in S : x <= y
         IN <<m>> \o SortSet(S \ {m})

\* seq[-n:]
LastN(seq, n) == IF Len(seq) <= n THEN seq ELSE SubSeq(seq, Len(seq) - n + 1, Len(seq))

\* ----------------------------------------------------------- alias table

LINE_ITEM_ALIASES ==
    << [canonical |-> "Revenue",
        aliases |-> <<"revenue", "net sales", "total revenue", "net revenue",
                      "sales", "total net revenue", "total sales", "gross revenue">>],
       [canonical |-> "Cost of Goods Sold",
        aliases |-> <<"cost of goods sold", "cost of sales", "cost of revenue",
                      "cogs", "cost of products sold">>],
       [canonical |-> "Gross Profit",
        aliases |-> <<"gross profit", "gross margin", "gross income">>],
       [canonical |-> "Operating Expenses",
        aliases |-> <<"operating expenses", "operating costs", "total operating expenses",
                      "selling general and administrative", "sg&a", "operating expenditure">>],
       [canonical |-> "Research & Development",
        aliases |-> <<"research and development", "r&d", "r & d expenses",
                      "research & development expenses">>],
       [canonical |-> "Operating Income",
        aliases |-> <<"operating income", "operating profit", "income from operations",
                      "profit from operations", "ebit">>],
       [canonical |-> "Interest Expense",
        aliases |-> <<"interest expense", "finance costs", "interest cost",
                      "interest charges", "net interest expense">>],
       [canonical |-> "Profit Before Tax",
        aliases |-> <<"profit before tax", "pbt", "income before tax",
                      "earnings before tax", "pre-tax income", "pretax income">>],
       [canonical |-> "Tax Expense",
        aliases |-> <<"income tax", "tax expense", "provision for income taxes",
                      "income tax expense", "income taxes">>],
       [canonical |-> "Net Income",
        aliases |-> <<"net income", "net profit", "profit after tax", "pat",
                      "net earnings", "profit for the year", "profit for the period",
                      "net income attributable", "net profit after tax">>],
       [canonical |-> "Depreciation & Amortization",
        aliases |-> <<"depreciation", "amortization", "depreciation and amortization",
                      "d&a", "depreciation & amortization">>],
       [canonical |-> "EBITDA",
        aliases |-> <<"ebitda", "earnings before interest tax depreciation amortization">>] >>

\* the canonical names, in declaration order
Canonicals == [k \in 1..Len(LINE_ITEM_ALIASES) |-> LINE_ITEM_ALIASES[k].canonical]

\* what match_line_item returns when no alias occurs in the line
NoneItem == "None"

\* None, as the value of a record or the result of parse_number
None == <<>>

\* the year "Unknown"
Unknown == 0

\* ------------------------------------------------------- match_line_item

\* a faulty variant: the loop over the table runs from the last-declared item to the first
RECURSIVE MatchFromLast(_, _, _)
MatchFromLast(line_lower, k, j) ==
    IF k < 1 THEN NoneItem
    ELSE IF j > Len(LINE_ITEM_ALIASES[k].aliases) THEN MatchFromLast(line_lower, k - 1, 1)
    ELSE IF Contains(line_lower, LINE_ITEM_ALIASES[k].aliases[j])
         THEN LINE_ITEM_ALIASES[k].canonical
         ELSE MatchFromLast(line_lower, k, j + 1)

match_line_item_last(line_lower) == MatchFromLast(line_lower, Len(LINE_ITEM_ALIASES), 1)

RECURSIVE MatchFrom(_, _, _)
MatchFrom(line_lower, k, j) ==
    IF k > Len(LINE_ITEM_ALIASES) THEN NoneItem
    ELSE IF j > Len(LINE_ITEM_ALIASES[k].aliases) THEN MatchFrom(line_lower, k + 1, 1)
    ELSE IF Contains(line_lower, LINE_ITEM_ALIASES[k].aliases[j])
         THEN LINE_ITEM_ALIASES[k].canonical
         ELSE MatchFrom(line_lower, k, j + 1)

match_line_item(line_lower) == MatchFrom(line_lower, 1, 1)

\* ----------------------------------------------------------- detect_years

\* \b at the gap before position i: exactly one side is a word character
WordBoundary(s, i) == IsWordChar(Char(s, i - 1)) # IsWordChar(Char(s, i))

\* \b((?:19|20)\d{2})\b matches at position i
YearAt(s, i) ==
    /\ i + 3 <= Len(s)
    /\ SubSeq(s, i, i + 1) \in {"19", "20"}
    /\ IsDigit(Char(s, i + 2))
    /\ IsDigit(Char(s, i + 3))
    /\ WordBoundary(s, i)
    /\ WordBoundary(s, i + 4)

\* re.findall of the year pattern: leftmost matches, none overlapping
RECURSIVE FindYears(_, _)
FindYears(s, i) ==
    IF i > Len(s) THEN <<>>
    ELSE IF YearAt(s, i) THEN <<SubSeq(s, i, i + 3)>> \o FindYears(s, i + 4)
    ELSE FindYears(s, i + 1)

MinYear == 1990

MaxYear == 2030

detect_years(all_text) ==
    LET combined == Join(all_text, " ")
        years == FindYears(combined, 1)
        unique_years == SortSet({ToInt(years[k]) : k \in 1..Len(years)})
    IN SelectSeq(unique_years, LAMBDA y : MinYear <= y /\ y <= MaxYear)

\* upload keeps at most this many of the most recent years
MaxYears == 5

\* a faulty variant: the slice [:5] instead of [-5:]
CapYearsFirst(detected_years) ==
    IF Len(detected_years) > 0
    THEN SubSeq(sorted(detected_years), 1,
                IF Len(detected_years) < MaxYears THEN Len(detected_years) ELSE MaxYears)
    ELSE <<>>

\* sorted(detected_years)[-5:] if detected_years else []
CapYears(detected_years) ==
    IF Len(detected_years) > 0 THEN LastN(sorted(detected_years), MaxYears) ELSE <<>>

\* ----------------------------------------------------------- parse_number

\* ^\([\d,\.]+\)$ matches raw
IsParenthesised(raw) ==
    /\ Len(raw) >= 3
    /\ Char(raw, 1) = "("
    /\ Char(raw, Len(raw)) = ")"
    /\ \A i \in 2..(Len(raw) - 1) : IsDigit(Char(raw, i)) \/ Char(raw, i) \in {",", "."}

AllDigits(s) == \A i \in 1..Len(s) : IsDigit(Char(s, i))

\* the digits of a fraction without its trailing zeros
RECURSIVE StripZeros(_)
StripZeros(frac) ==
    IF Len(frac) > 0 /\ Char(frac, Len(frac)) = "0"
    THEN StripZeros(SubSeq(frac, 1, Len(frac) - 1))
    ELSE frac

\* the float of sign, integer digits and fraction digits
MkFloat(neg, int, frac) ==
    LET f == StripZeros(frac)
        n == ToInt(int \o f)
    IN <<IF neg THEN 0 - n ELSE n, Len(f)>>

\* the position of the first "." of s, 0 when there is none
DotPos(s) ==
    IF \E i \in 1..Len(s) : Char(s, i) = "."
    THEN CHOOSE i \in 1..Len(s) : Char(s, i) = "." /\ \A j \in 1..(i - 1) : Char(s, j) # "."
    ELSE 0

\* float() of an unsigned decimal literal: digits, digits., .digits, digits.digits
UnsignedFloat(neg, s) ==
    LET d == DotPos(s)
        int == IF d = 0 THEN s ELSE SubSeq(s, 1, d - 1)
        frac == IF d = 0 THEN "" ELSE SubSeq(s, d + 1, Len(s))
    IN IF AllDigits(int) /\ AllDigits(frac) /\ Len(int) + Len(frac) > 0
       THEN MkFloat(neg, int, frac)
       ELSE None

\* float(s), ValueError as None, for s over digits, letters, "(", ")", "-", "+", ".":
\* the literal forms with an exponent, an underscore, inf or nan are not modelled
float(s) ==
    IF Len(s) = 0 THEN None
    ELSE IF Char(s, 1) = "-" THEN UnsignedFloat(TRUE, SubSeq(s, 2, Len(s)))
    ELSE IF Char(s, 1) = "+" THEN UnsignedFloat(FALSE, SubSeq(s, 2, Len(s)))
    ELSE UnsignedFloat(FALSE, s)

parse_number(raw) ==
    IF Len(raw) = 0 THEN None
    ELSE LET r1 == strip(raw)
             r2 == IF IsParenthesised(r1) THEN "-" \o SubSeq(r1, 2, Len(r1) - 1) ELSE r1
         IN float(RemoveCommas(r2))

\* ------------------------------------------------- numeric tokens of a line

\* the end (exclusive) of the longest run of [\d,] starting at i
RECURSIVE RunEnd(_, _)
RunEnd(s, i) ==
    IF IsDigit(Char(s, i)) \/ Char(s, i) = "," THEN RunEnd(s, i + 1) ELSE i

\* the end (exclusive) of the longest run of \d starting at i
RECURSIVE DigitsEnd(_, _)
DigitsEnd(s, i) == IF IsDigit(Char(s, i)) THEN DigitsEnd(s, i + 1) ELSE i

\* [\(\-]?[\d,]+(?:\.\d+)?\)? at position i: the end (exclusive) of the match,
\* 0 when there is none.  Every part after the run is optional and greedy.
NumberEnd(s, i) ==
    LET p1 == IF Char(s, i) \in {"(", "-"} THEN i + 1 ELSE i
        p2 == RunEnd(s, p1)
        p3 == IF Char(s, p2) = "." /\ IsDigit(Char(s, p2 + 1)) THEN DigitsEnd(s, p2 + 1) ELSE p2
        p4 == IF Char(s, p3) = ")" THEN p3 + 1 ELSE p3
    IN IF p2 > p1 THEN p4 ELSE 0

\* re.findall of the numeric token pattern
RECURSIVE FindNumbers(_, _)
FindNumbers(s, i) ==
    IF i > Len(s) THEN <<>>
    ELSE LET e == NumberEnd(s, i)
         IN IF e = 0 THEN FindNumbers(s, i + 1)
            ELSE <<SubSeq(s, i, e - 1)>> \o FindNumbers(s, e)

\* re.match(r'^\d{4}$', n.replace(",", ""))
LooksLikeYear(n) ==
    LET bare == RemoveCommas(n)
    IN Len(bare) = 4 /\ AllDigits(bare)

\* the tokens of a line that are kept as value candidates
numbers_raw(line) == SelectSeq(FindNumbers(line, 1), LAMBDA n : ~LooksLikeYear(n))

\* ----------------------------------------------- extract_financial_lines

Row(item, yr, val, conf) == [line_item |-> item, year |-> yr, value |-> val, confidence |-> conf]

\* a faulty variant: the confidence does not look at the parsed value
TokenRowAlwaysOK(canonical, yr, raw_val) == Row(canonical, yr, parse_number(raw_val), "OK")

\* the row of one token: OK when it parses, Low Confidence when it does not
TokenRow(canonical, yr, raw_val) ==
    LET val == parse_number(raw_val)
    IN Row(canonical, yr, val, IF val # None THEN "OK" ELSE "Low Confidence")

\* the rows of the tokens of a matched line, by the number of tokens and years
AlignRows(canonical, nums, detected_years) ==
    LET sorted_years == Reverse(sorted(detected_years))
    IN IF Len(nums) = 0 THEN <<Row(canonical, Unknown, None, "Missing")>>
       ELSE IF Len(detected_years) > 0 /\ Len(nums) = Len(detected_years)
       THEN [i \in 1..Len(nums) |-> TokenRow(canonical, sorted_years[i], nums[i])]
       ELSE IF Len(detected_years) > 0 /\ Len(nums) >= 1
       THEN [i \in 1..Len(nums) |->
                TokenRow(canonical,
                         IF i <= Len(sorted_years) THEN sorted_years[i] ELSE Unknown,
                         nums[i])]
       ELSE [i \in 1..Len(nums) |-> TokenRow(canonical, Unknown, nums[i])]

\* --------------------------------------------------- deduplicate_results

\* priority.get(confidence, 9)
priority(conf) ==
    CASE conf = "OK" -> 0
      [] conf = "Low Confidence" -> 1
      [] conf = "Missing" -> 2
      [] conf = "Review Required" -> 3
      [] OTHER -> 9

\* a faulty variant: the value is part of the key
KeyWithValue(row) == <<row.line_item, row.year, row.value>>

Key(row) == <<row.line_item, row.year>>

\* a faulty variant: <= instead of <, so that a later record of equal confidence wins
DedupStepLastWins(best, row) ==
    IF \A i \in 1..Len(best) : Key(best[i]) # Key(row)
    THEN Append(best, row)
    ELSE LET i == CHOOSE j \in 1..Len(best) : Key(best[j]) = Key(row)
         IN IF priority(row.confidence) <= priority(best[i].confidence)
            THEN [best EXCEPT ![i] = row]
            ELSE best

\* one step of the loop: best is the dict's values in insertion order
DedupStep(best, row) ==
    IF \A i \in 1..Len(best) : Key(best[i]) # Key(row)
    THEN Append(best, row)
    ELSE LET i == CHOOSE j \in 1..Len(best) : Key(best[j]) = Key(row)
         IN IF priority(row.confidence) < priority(best[i].confidence)
            THEN [best EXCEPT ![i] = row]
            ELSE best

RECURSIVE DedupFold(_, _)
DedupFold(best, results) ==
    IF Len(results) = 0 THEN best
    ELSE DedupFold(DedupStep(best, results[1]), Tail(results))

deduplicate_results(results) == DedupFold(<<>>, results)

\* ---------------------------------------------------- fill_missing_items

\* a faulty variant: the test "canonical not in found_items" is inverted
RECURSIVE PlaceholdersInverted(_, _, _)
PlaceholdersInverted(k, found_items, years_to_use) ==
    IF k > Len(LINE_ITEM_ALIASES) THEN <<>>
    ELSE (IF LINE_ITEM_ALIASES[k].canonical \in found_items
          THEN [i \in 1..Len(years_to_use) |->
                   Row(LINE_ITEM_ALIASES[k].canonical, years_to_use[i], None, "Missing")]
          ELSE <<>>)
         \o PlaceholdersInverted(k + 1, found_items, years_to_use)

\* the placeholder rows of the canonical items from the k-th on that were not found
RECURSIVE Placeholders(_, _, _)
Placeholders(k, found_items, years_to_use) ==
    IF k > Len(LINE_ITEM_ALIASES) THEN <<>>
    ELSE (IF LINE_ITEM_ALIASES[k].canonical \notin found_items
          THEN [i \in 1..Len(years_to_use) |->
                   Row(LINE_ITEM_ALIASES[k].canonical, years_to_use[i], None, "Missing")]
          ELSE <<>>)
         \o Placeholders(k + 1, found_items, years_to_use)

\* a faulty variant: no fallback to the year "Unknown" for an empty year list
fill_missing_items_no_fallback(results, detected_years) ==
    LET found_items == {results[i].line_item : i \in 1..Len(results)}
    IN results \o Placeholders(1, found_items, detected_years)

fill_missing_items(results, detected_years) ==
    LET found_items == {results[i].line_item : i \in 1..Len(results)}
        years_to_use == IF Len(detected_years) > 0 THEN detected_years ELSE <<Unknown>>
    IN results \o Placeholders(1, found_items, years_to_use)

\* ------------------------------------------------------------ the upload

UPLOAD_FOLDER == "uploads"

ALLOWED_EXTENSIONS == {"pdf"}

\* the position of the last "." of s, 0 when there is none
LastDot(s) ==
    IF \E i \in 1..Len(s) : Char(s, i) = "."
    THEN CHOOSE i \in 1..Len(s) : Char(s, i) = "." /\ \A j \in (i + 1)..Len(s) : Char(s, j) # "."
    ELSE 0

allowed_file(filename) ==
    /\ LastDot(filename) > 0
    /\ lower(SubSeq(filename, LastDot(filename) + 1, Len(filename))) \in ALLOWED_EXTENSIONS

\* werkzeug's secure_filename on names of letters, digits, ".", "_", "-" and single
\* inner spaces: each space becomes "_", every other character is kept
RECURSIVE secure_filename(_)
secure_filename(name) ==
    IF Len(name) = 0 THEN ""
    ELSE (IF Char(name, 1) = " " THEN "_" ELSE Char(name, 1))
            \o secure_filename(SubSeq(name, 2, Len(name)))

\* os.path.join(app.config["UPLOAD_FOLDER"], filename)
PathOf(filename) == UPLOAD_FOLDER \o "/" \o secure_filename(filename)

\* a path of the upload folder that holds no file
NoFile == [owner |-> 0, doc |-> <<>>]

\* extract_text: the non-empty page texts of the file at pdf_path; a missing file
\* raises inside the try block and leaves the list empty
extract_text(folder, pdf_path) ==
    IF folder[pdf_path] = NoFile THEN <<>>
    ELSE SelectSeq(folder[pdf_path].doc, LAMBDA text : Len(text) > 0)

\* the lines of all pages, in the order the two nested loops visit them
RECURSIVE AllLines(_)
AllLines(pages) ==
    IF Len(pages) = 0 THEN <<>>
    ELSE SplitLines(pages[1]) \o AllLines(Tail(pages))

\* ---------------------------------------------------------------- bounds

\* concurrent upload requests
NumReqs == 2

\* lines of a document (over all its pages)
MaxLines == 3

\* words of a line given to the line scanner alone
MaxWords == 3

\* candidate rows given to the deduplicator alone
MaxResults == 3

Reqs == 1..NumReqs

\* ------------------------------------------------------------------ state

VARIABLES
    uploads,   \* the upload folder: path -> the file saved there, or NoFile
    req        \* per request: its position in upload() and upload()'s local variables

vars == <<uploads, req>>

\* a request that was never made
Blank ==
    [pc |-> "none", filename |-> "", doc |-> <<>>, pdf_path |-> "",
     pages_text |-> <<>>, detected_years |-> <<>>, todo |-> <<>>, line |-> "",
     canonical |-> NoneItem, numbers_raw |-> <<>>, results |-> <<>>,
     deduped |-> <<>>, final_results |-> <<>>]

\* a request received with a file of the given name and content
Start(filename, doc) == [Blank EXCEPT !.pc = "start", !.filename = filename, !.doc = doc]

Set(r, rec) == req' = [req EXCEPT ![r] = rec]

\* ---------------------------------------------------------------- actions

\* lines 370-382: no file (taken as the empty name), an empty name or a wrong
\* extension ends the request
Refuse(r) ==
    /\ req[r].pc = "start"
    /\ req[r].filename = "" \/ ~allowed_file(req[r].filename)
    /\ Set(r, [req[r] EXCEPT !.pc = "refused"])
    /\ UNCHANGED uploads

\* lines 384-386: file.save(pdf_path), replacing whatever is stored at that path
Save(r) ==
    /\ req[r].pc = "start"
    /\ req[r].filename # ""
    /\ allowed_file(req[r].filename)
    /\ LET pdf_path == PathOf(req[r].filename)
       IN /\ uploads' = [uploads EXCEPT ![pdf_path] = [owner |-> r, doc |-> req[r].doc]]
          /\ Set(r, [req[r] EXCEPT !.pc = "saved", !.pdf_path = pdf_path])

\* lines 389-393: extract_text(pdf_path); no text ends the request with an error
ExtractText(r) ==
    /\ req[r].pc = "saved"
    /\ LET pages_text == extract_text(uploads, req[r].pdf_path)
       IN Set(r, [req[r] EXCEPT !.pages_text = pages_text,
                                !.pc = IF Len(pages_text) = 0 THEN "no_text" ELSE "text"])
    /\ UNCHANGED uploads

\* line 396: detected_years = detect_years(pages_text)
DetectYears(r) ==
    /\ req[r].pc = "text"
    /\ Set(r, [req[r] EXCEPT !.detected_years = detect_years(req[r].pages_text),
                             !.pc = "detected"])
    /\ UNCHANGED uploads

\* line 399: at most the 5 most recent years; then extract_financial_lines starts
LimitYears(r) ==
    /\ req[r].pc = "detected"
    /\ Set(r, [req[r] EXCEPT !.detected_years = CapYears(req[r].detected_years),
                             !.todo = AllLines(req[r].pages_text),
                             !.results = <<>>,
                             !.pc = "scan"])
    /\ UNCHANGED uploads

\* lines 216-272: one pass of the loop over the lines
ScanLine(r) ==
    /\ req[r].pc = "scan"
    /\ Len(req[r].todo) > 0
    /\ LET line == strip(Head(req[r].todo))
           canonical == match_line_item(lower(line))
           nums == numbers_raw(line)
       IN Set(r, IF Len(line) = 0
                 THEN [req[r] EXCEPT !.todo = Tail(@), !.line = line]
                 ELSE IF canonical = NoneItem
                 THEN [req[r] EXCEPT !.todo = Tail(@), !.line = line,
                                     !.canonical = canonical]
                 ELSE [req[r] EXCEPT !.todo = Tail(@), !.line = line,
                                     !.canonical = canonical,
                                     !.numbers_raw = nums,
                                     !.results = @ \o AlignRows(canonical, nums,
                                                               req[r].detected_years)])
    /\ UNCHANGED uploads

\* line 274: extract_financial_lines returns
EndScan(r) ==
    /\ req[r].pc = "scan"
    /\ Len(req[r].todo) = 0
    /\ Set(r, [req[r] EXCEPT !.pc = "extracted"])
    /\ UNCHANGED uploads

\* line 402
Deduplicate(r) ==
    /\ req[r].pc = "extracted"
    /\ Set(r, [req[r] EXCEPT !.deduped = deduplicate_results(req[r].results),
                             !.pc = "deduped"])
    /\ UNCHANGED uploads

\* line 403: fill_missing_items appends to the list it is given and returns it,
\* so deduped and final_results are the same list afterwards
FillMissing(r) ==
    /\ req[r].pc = "deduped"
    /\ LET final == fill_missing_items(req[r].deduped, req[r].detected_years)
       IN Set(r, [req[r] EXCEPT !.deduped = final, !.final_results = final,
                                !.pc = "filled"])
    /\ UNCHANGED uploads

\* lines 405-408: the output files get names with a fresh uuid; their content is
\* not modelled
GenerateOutput(r) ==
    /\ req[r].pc = "filled"
    /\ Set(r, [req[r] EXCEPT !.pc = "generated"])
    /\ UNCHANGED uploads

\* lines 410-414: os.remove(pdf_path), a missing file being ignored
RemoveUpload(r) ==
    /\ req[r].pc = "generated"
    /\ uploads' = [uploads EXCEPT ![req[r].pdf_path] = NoFile]
    /\ Set(r, [req[r] EXCEPT !.pc = "done"])

Next ==
    \E r \in Reqs :
        \/ Refuse(r)
        \/ Save(r)
        \/ ExtractText(r)
        \/ DetectYears(r)
        \/ LimitYears(r)
        \/ ScanLine(r)
        \/ EndScan(r)
        \/ Deduplicate(r)
        \/ FillMissing(r)
        \/ GenerateOutput(r)
        \/ RemoveUpload(r)

\* ----------------------------------------------------------------- inputs

\* the lines documents are made of
LinePool ==
    { "Revenue FY 2022 2021",
      "Net Revenue  1,500  1,200",
      "Net Income  (50)  200",
      " EBITDA 75.5 (50 7 ",
      "1998 2001 2005 2010 2015 2020",
      "" }

\* the documents of n lines: each line starts a new page or continues the last one
RECURSIVE DocsOfLines(_)
DocsOfLines(n) ==
    IF n = 0 THEN {<<>>}
    ELSE LET shorter == DocsOfLines(n - 1)
         IN {Append(d, l) : d \in shorter, l \in LinePool}
            \cup {[d EXCEPT ![Len(d)] = @ \o "\n" \o l] :
                     d \in {x \in shorter : Len(x) > 0}, l \in LinePool}

\* the documents of at most max lines
DocsUpTo(max) == UNION {DocsOfLines(n) : n \in 0..max}

\* names a client may give its file
UploadNames == {"a.pdf", "q1 report.PDF", "q1_report.PDF", "notes.txt", ""}

\* the words single lines are made of
Words ==
    { "Net Income", "Revenue", "Gross Profit", "EBITDA",
      "1,200", "(50)", "2022", "-3", "7.5", "(50" }

RECURSIVE LinesOfWords(_)
LinesOfWords(n) ==
    IF n = 0 THEN {""}
    ELSE IF n = 1 THEN Words
    ELSE {l \o " " \o w : l \in LinesOfWords(n - 1), w \in Words}

\* the lines the documentation gives as examples
ExampleLines ==
    { "Net Revenue  1,500  1,200",
      "Net Income  (50)  200",
      "Total Revenue and Net Sales 1,200" }

\* the lines of at most max words, and the example lines
WordLines(max) == UNION {LinesOfWords(n) : n \in 0..max} \cup ExampleLines

\* year lists as upload passes them on: ascending, distinct, at most MaxYears
YearLists == {<<>>, <<2021, 2022>>}

\* candidate rows for the deduplicator
CandidateRows ==
    {Row(k[1], k[2], t[2], t[1]) :
        k \in {<<"Revenue", 2022>>, <<"Revenue", Unknown>>, <<"EBITDA", 2022>>},
        t \in {<<"OK", <<500, 0>>>>, <<"OK", <<700, 0>>>>, <<"Low Confidence", None>>,
               <<"Missing", None>>, <<"Review Required", None>>}}

RECURSIVE RowLists(_)
RowLists(n) ==
    IF n = 0 THEN {<<>>}
    ELSE {Append(l, x) : l \in RowLists(n - 1), x \in CandidateRows}

\* the candidate lists of at most max rows
CandidateLists(max) == UNION {RowLists(n) : n \in 0..max}

\* the upload folder before any request
EmptyFolder == [p \in {PathOf(f) : f \in UploadNames \cup {"report.pdf"}} |-> NoFile]

\* a request already past file.save, holding its saved file
Saved(r, rec) == [EmptyFolder EXCEPT ![PathOf("report.pdf")] = [owner |-> r, doc |-> rec.doc]]

\* ---------------------------------------------------------- specifications

\* one request: any document under an accepted name, or a refused name
Init ==
    /\ uploads = EmptyFolder
    /\ \E in \in ({"report.pdf"} \X DocsUpTo(MaxLines)) \cup ({"notes.txt", ""} \X {<<>>}) :
          req = [r \in Reqs |-> IF r = 1 THEN Start(in[1], in[2]) ELSE Blank]

Spec == Init /\ [][Next]_vars

\* concurrent requests, each with its own file content under any name
InitUpload ==
    /\ uploads = EmptyFolder
    /\ \E names \in [Reqs -> UploadNames] :
          req = [r \in Reqs |->
                    Start(names[r],
                          IF r = 1 THEN <<"Revenue FY 2022 2021\nNet Income  (50)  200">>
                          ELSE IF r = 2 THEN <<"Revenue", "Sales 300">>
                          ELSE <<>>)]

SpecUpload == InitUpload /\ [][Next]_vars

\* the line scanner alone: one line of words, any year list
InitLine ==
    \E l \in WordLines(MaxWords), years \in YearLists :
        LET rec == [Start("report.pdf", <<l>>) EXCEPT
                        !.pc = "scan", !.pdf_path = PathOf("report.pdf"),
                        !.pages_text = <<l>>, !.detected_years = years, !.todo = <<l>>]
        IN /\ req = [r \in Reqs |-> IF r = 1 THEN rec ELSE Blank]
           /\ uploads = Saved(1, rec)

NextLine == \E r \in Reqs : ScanLine(r) \/ EndScan(r)

SpecLine == InitLine /\ [][NextLine]_vars

\* the deduplicator and the gap filler alone: any candidate list, any year list
InitUnit ==
    \E rows \in CandidateLists(MaxResults), years \in YearLists :
        LET rec == [Start("report.pdf", <<"x">>) EXCEPT
                        !.pc = "extracted", !.pdf_path = PathOf("report.pdf"),
                        !.pages_text = <<"x">>, !.detected_years = years,
                        !.results = rows]
        IN /\ req = [r \in Reqs |-> IF r = 1 THEN rec ELSE Blank]
           /\ uploads = Saved(1, rec)

NextUnit == \E r \in Reqs : Deduplicate(r) \/ FillMissing(r)

SpecUnit == InitUnit /\ [][NextUnit]_vars

\* ------------------------------------------------------ stated properties

\* the positions of upload() at which final_results is the final record set
HasFinal(r) == req[r].pc \in {"filled", "generated", "done"}

\* the years the final record set is to cover
YearsToCover(r) ==
    IF Len(req[r].detected_years) = 0 THEN {Unknown} ELSE Range(req[r].detected_years)

CountOf(rows, item, yr) ==
    Cardinality({i \in 1..Len(rows) : rows[i].line_item = item /\ rows[i].year = yr})

\* the canonical items no extracted row names
Unmatched(rows) == Range(Canonicals) \ {rows[i].line_item : i \in 1..Len(rows)}

C2_Unique ==
    \A r \in Reqs :
        HasFinal(r) =>
            \A i, j \in 1..Len(req[r].final_results) :
                (/\ req[r].final_results[i].line_item = req[r].final_results[j].line_item
                 /\ req[r].final_results[i].year = req[r].final_results[j].year) => i = j

\* a gap-filled result of a candidate list that named one pair three times
C2_Witness ==
    /\ req[1].pc = "filled"
    /\ Len(req[1].results) = 3
    /\ CountOf(req[1].results, "Revenue", 2022) = 3
    /\ req[1].detected_years = <<2021, 2022>>
    /\ CountOf(req[1].final_results, "Revenue", 2022) = 1
    /\ CountOf(req[1].final_results, "EBITDA", 2022) = 1

\* a token of exactly 4 digits, with no separator, sign, parenthesis or decimals
IsPlainYear(n) == Len(n) = 4 /\ \A i \in 1..4 : Char(n, i) \in Digits

\* the numeric tokens of a line that are not plain 4-digit years
ValueTokens(line) == SelectSeq(FindNumbers(line, 1), LAMBDA n : ~IsPlainYear(n))

\* the single line of a request of SpecLine has been scanned and was matched
ScannedMatch(r) ==
    /\ req[r].pc \in {"scan", "extracted"}
    /\ Len(req[r].todo) = 0
    /\ Len(req[r].pages_text) = 1
    /\ req[r].line # ""
    /\ req[r].canonical # NoneItem

\* C3: a matched line with as many value tokens as there are years, all of them
\* numbers, gives one row per token, the i-th token with the i-th most recent
\* year, its parsed value and confidence OK; with years 2021 and 2022 the line
\* "Net Revenue  1,500  1,200" gives Revenue 1500.0 for 2022 and 1200.0 for 2021,
\* and "Net Income  (50)  200" gives Net Income -50.0 for 2022 and 200.0 for 2021.
C3_YearAlignment ==
    \A r \in Reqs :
        ScannedMatch(r) =>
            LET toks == ValueTokens(req[r].line)
                years == req[r].detected_years
            IN /\ (/\ Len(years) > 0
                   /\ Len(toks) = Len(years)
                   /\ \A i \in 1..Len(toks) : parse_number(toks[i]) # None)
                  => req[r].results =
                        [i \in 1..Len(toks) |->
                            Row(req[r].canonical, years[Len(years) + 1 - i],
                                parse_number(toks[i]), "OK")]
               /\ (req[r].line = "Net Revenue  1,500  1,200" /\ years = <<2021, 2022>>)
                  => req[r].results = << Row("Revenue", 2022, <<1500, 0>>, "OK"),
                                         Row("Revenue", 2021, <<1200, 0>>, "OK") >>
               /\ (req[r].line = "Net Income  (50)  200" /\ years = <<2021, 2022>>)
                  => req[r].results = << Row("Net Income", 2022, <<0 - 50, 0>>, "OK"),
                                         Row("Net Income", 2021, <<200, 0>>, "OK") >>

\* C4: of the numeric tokens of a matched line, the value extractor drops exactly
\* the plain 4-digit ones and keeps every other, a comma-grouped token such as
\* "1,200" and a parenthesised or signed one included.
C4_StrayYearExclusion ==
    \A r \in Reqs :
        ScannedMatch(r) => req[r].numbers_raw = ValueTokens(req[r].line)

\* the rank of a confidence tag, lower being better
Rank(conf) ==
    [t \in {"OK", "Low Confidence", "Missing", "Review Required"} |->
        CASE t = "OK" -> 1 [] t = "Low Confidence" -> 2 [] t = "Missing" -> 3 [] OTHER -> 4][conf]

SameKey(a, b) == a.line_item = b.line_item /\ a.year = b.year

\* the position in rows of the record to keep for the key of rows[i]: the earliest
\* one among those of the best rank
Keeper(rows, i) ==
    LET same == {j \in 1..Len(rows) : SameKey(rows[j], rows[i])}
        best == {j \in same : \A k \in same : Rank(rows[j].confidence) <= Rank(rows[k].confidence)}
    IN CHOOSE j \in best : \A k \in best : j <= k

\* C5: deduplicate_results returns exactly one record per (line_item, year) key of
\* its input: the earliest record of the key's best confidence in the order OK,
\* Low Confidence, Missing, Review Required.  A Missing and an OK record of
\* (Revenue, 2022) give the OK record, in either order.
C5_DedupRule ==
    \A r \in Reqs :
        req[r].pc = "deduped" =>
            LET in == req[r].results
                out == req[r].deduped
                missing == Row("Revenue", 2022, None, "Missing")
                ok == Row("Revenue", 2022, <<500, 0>>, "OK")
            IN /\ \A i \in 1..Len(in) :
                     Cardinality({j \in 1..Len(out) : SameKey(out[j], in[i])}) = 1
               /\ \A j \in 1..Len(out) :
                     \E i \in 1..Len(in) : SameKey(in[i], out[j]) /\ out[j] = in[Keeper(in, i)]
               /\ in \in {<<missing, ok>>, <<ok, missing>>} => out = <<ok>>

\* a later OK record has replaced an earlier Missing one, and of two OK records
\* of one key the earlier was kept
C5_Witness ==
    /\ req[1].pc = "deduped"
    /\ req[1].results = << Row("Revenue", 2022, None, "Missing"),
                           Row("Revenue", 2022, <<700, 0>>, "OK"),
                           Row("Revenue", 2022, <<500, 0>>, "OK") >>
    /\ req[1].deduped = << Row("Revenue", 2022, <<700, 0>>, "OK") >>

\* the years of 1990..2030 written in the pages as 4-digit words of their own
YearsWritten(pages) ==
    LET text == Join(pages, " ")
        at == {i \in 1..(Len(text) - 3) :
                  /\ \A k \in 0..3 : Char(text, i + k) \in Digits
                  /\ ~IsWordChar(Char(text, i - 1))
                  /\ ~IsWordChar(Char(text, i + 4))}
    IN {ToInt(SubSeq(text, i, i + 3)) : i \in at} \cap (1990..2030)

FiveLargest(S) == {y \in S : Cardinality({z \in S : z > y}) < 5}

\* seq lists exactly the members of S, in ascending order
ListsAscending(seq, S) ==
    /\ Range(seq) = S
    /\ \A i, j \in 1..Len(seq) : i < j => seq[i] < seq[j]

SixYears == {1998, 2001, 2005, 2010, 2015, 2020}

WithAlias(text) ==
    {k \in 1..Len(LINE_ITEM_ALIASES) :
        \E j \in 1..Len(LINE_ITEM_ALIASES[k].aliases) :
            Contains(text, LINE_ITEM_ALIASES[k].aliases[j])}

\* the single line of a request of SpecLine has been scanned and is not empty
Scanned(r) ==
    /\ req[r].pc \in {"scan", "extracted"}
    /\ Len(req[r].todo) = 0
    /\ Len(req[r].pages_text) = 1
    /\ req[r].line # ""

\* C7: match_line_item returns the earliest-declared canonical item with an alias
\* that is a substring of the lowercased line, and None when there is no such
\* item; "Total Revenue and Net Sales 1,200" resolves to Revenue.
C7_AliasPriority ==
    \A r \in Reqs :
        Scanned(r) =>
            LET found == WithAlias(lower(req[r].line))
            IN /\ found = {} => req[r].canonical = NoneItem
               /\ found # {} =>
                     /\ req[r].canonical = Canonicals[CHOOSE k \in found : \A m \in found : k <= m]
                     /\ \A m \in found : Canonicals[m] # req[r].canonical =>
                           \E k \in found : k < m /\ Canonicals[k] = req[r].canonical
               /\ req[r].line = "Total Revenue and Net Sales 1,200"
                     => req[r].canonical = "Revenue"

\* a line with aliases of three canonical items, the last-declared written first
C7_Witness ==
    /\ Scanned(1)
    /\ req[1].line = "EBITDA Gross Profit"
    /\ WithAlias(lower(req[1].line)) = {3, 6, 12}
    /\ req[1].canonical = "Gross Profit"

\* C8: fill_missing_items returns the records it was given, unchanged and in their
\* order, followed by one record with no value and confidence Missing per year of
\* the year set (one with year "Unknown" for an empty set) for each canonical item
\* without a record, and by nothing else; every canonical item is in the result.
C8_GapFiller ==
    [][\A r \in Reqs :
          (req[r].pc = "deduped" /\ req'[r].pc = "filled") =>
              LET given == req[r].deduped
                  out == req'[r].final_results
                  years == IF Len(req[r].detected_years) = 0 THEN {Unknown}
                           ELSE Range(req[r].detected_years)
                  added == (Len(given) + 1)..Len(out)
              IN /\ Len(out) >= Len(given)
                 /\ SubSeq(out, 1, Len(given)) = given
                 /\ \A i \in added :
                       /\ out[i].line_item \in Unmatched(given)
                       /\ out[i].year \in years
                       /\ out[i].value = None
                       /\ out[i].confidence = "Missing"
                 /\ \A c \in Unmatched(given), y \in years :
                       Cardinality({i \in added : out[i].line_item = c /\ out[i].year = y}) = 1
                 /\ \A c \in Range(Canonicals) : \E i \in 1..Len(out) : out[i].line_item = c
      ]_vars

\* a list with records of two items, gap-filled over two years: 20 placeholders
C8_Witness ==
    /\ req[1].pc = "filled"
    /\ req[1].detected_years = <<2021, 2022>>
    /\ {req[1].results[i].line_item : i \in 1..Len(req[1].results)} = {"Revenue", "EBITDA"}
    /\ Len(req[1].final_results) = Len(deduplicate_results(req[1].results)) + 20

\* the positions of upload() between file.save and os.remove
HoldsFile(r) ==
    req[r].pc \in {"saved", "text", "detected", "scan", "extracted", "deduped", "filled",
                   "generated"}

\* C9: in any interleaving of two uploads, each reads, processes and deletes its
\* own temporary file only: from the moment a request has saved its file until it
\* has extracted the text, the file at its path is the one it saved; the text it
\* extracts is that of its own file; and the file it is about to delete is not
\* another request's.
C9_TempFileIsolation ==
    \A r \in Reqs :
        /\ req[r].pc = "saved" =>
              uploads[req[r].pdf_path] = [owner |-> r, doc |-> req[r].doc]
        /\ (HoldsFile(r) /\ req[r].pc # "saved") \/ req[r].pc \in {"no_text", "done"} =>
              req[r].pages_text = SelectSeq(req[r].doc, LAMBDA t : t # "")
        /\ req[r].pc = "generated" => uploads[req[r].pdf_path].owner \in {0, r}

\* C10: in every record of the final record set the confidence is OK exactly when
\* the value is present; a Missing or Low Confidence record has no value, and
\* Review Required does not occur.
C10_ConfidenceValue ==
    \A r \in Reqs :
        HasFinal(r) =>
            \A i \in 1..Len(req[r].final_results) :
                LET row == req[r].final_results[i]
                IN /\ row.confidence \in {"OK", "Low Confidence", "Missing"}
                   /\ row.confidence = "OK" <=> row.value # None
                   /\ row.confidence \in {"Low Confidence", "Missing"} => row.value = None

\* a final record set with an OK, a Low Confidence and a Missing record
C10_Witness ==
    /\ req[1].pc = "done"
    /\ \E i, j, k \in 1..Len(req[1].final_results) :
          /\ req[1].final_results[i].confidence = "OK"
          /\ req[1].final_results[i].value = <<755, 1>>
          /\ req[1].final_results[j].confidence = "Low Confidence"
          /\ req[1].final_results[j].value = None
          /\ req[1].final_results[k].confidence = "Missing"

====
